---- MODULE Spec2Model ----
(***************************************************************************)
(* A model of the moments package: the occurrence variants of moment.py,   *)
(* the two routes of Moment.parse (structured mapping and MDL text), the   *)
(* canonical renderings, Snapshot.parse and the Snapshot text of           *)
(* snapshot.py, and the Snapshot chain seeded by Agent.system and advanced *)
(* by Agent.next.                                                          *)
(*                                                                         *)
(* Python values are tagged records (None, str, dict).  A str is a         *)
(* sequence of one-character strings, so that quoting, escaping and        *)
(* newlines are visible to the text route.                                 *)
(***************************************************************************)
EXTENDS Integers, Sequences, FiniteSets, TLC

\* Bounds of the model.
MaxLen == 2
MaxOccs == 2

\* Characters with a meaning in the MDL text.
QUOTE == "\""
NL == "\n"
BSLASH == "\\"

(***************************************************************************)
(* Python values                                                           *)
(***************************************************************************)
None == [t |-> "none", s |-> <<>>, m |-> {}]
Str(s) == [t |-> "str", s |-> s, m |-> {}]
\* A dict with str keys and str values, as a set of <<key, value>> pairs.
Dict(m) == [t |-> "dict", s |-> <<>>, m |-> m]

\* Python truthiness: None, "" and {} are falsy.
Truthy(v) == (v.t = "str" /\ v.s # <<>>) \/ (v.t = "dict" /\ v.m # {})

DictKeys(v) == {p[1] : p \in v.m}
DictGet(v, k) == (CHOOSE p \in v.m : p[1] = k)[2]

\* `x if x else ""` where the result becomes a sub-field of a content mapping.
OrEmpty(x) == IF Truthy(x) THEN x.s ELSE <<>>

(***************************************************************************)
(* Occurrence variants (moment.py 16-281)                                  *)
(***************************************************************************)
Occurrence(kind, content) == [kind |-> kind, content |-> content]

Instructions(instructions) ==
    Occurrence("Instructions", IF Truthy(instructions) THEN instructions ELSE Str(<<>>))

Example(title, example) ==
    Occurrence("Example", Dict({<<"title", OrEmpty(title)>>, <<"example", OrEmpty(example)>>}))

Begin == Occurrence("Begin", Str(<<>>))

Context(context) ==
    Occurrence("Context", IF Truthy(context) THEN context ELSE Dict({}))

Self(emotion, says) ==
    Occurrence("Self", Dict({<<"emotion", OrEmpty(emotion)>>, <<"says", OrEmpty(says)>>}))

Participant(name, emotion, says) ==
    Occurrence("Participant", Dict({<<"name", OrEmpty(name)>>,
                                    <<"emotion", OrEmpty(emotion)>>,
                                    <<"says", OrEmpty(says)>>}))

Motivation(motivation) ==
    Occurrence("Motivation", IF Truthy(motivation) THEN motivation ELSE Str(<<>>))

Observation(observation) ==
    Occurrence("Observation", IF Truthy(observation) THEN observation ELSE Str(<<>>))

Thought(thought) ==
    Occurrence("Thought", IF Truthy(thought) THEN thought ELSE Str(<<>>))

Identification(kind, name) ==
    Occurrence("Identification", Dict({<<"kind", OrEmpty(kind)>>, <<"name", OrEmpty(name)>>}))

Waiting(waiting_on) ==
    Occurrence("Waiting", IF Truthy(waiting_on) THEN waiting_on ELSE Str(<<>>))

Resuming(resuming_on) ==
    Occurrence("Resuming", IF Truthy(resuming_on) THEN resuming_on ELSE Str(<<>>))

Working(working_on) ==
    Occurrence("Working", IF Truthy(working_on) THEN working_on ELSE Str(<<>>))

Action(action) ==
    Occurrence("Action", IF Truthy(action) THEN action ELSE Str(<<>>))

Rejected(emotion, says) ==
    Occurrence("Rejected", Dict({<<"emotion", OrEmpty(emotion)>>, <<"says", OrEmpty(says)>>}))

CritiqueRequest(critique_request) ==
    Occurrence("CritiqueRequest", IF Truthy(critique_request) THEN critique_request ELSE Str(<<>>))

Critique(critique) ==
    Occurrence("Critique", IF Truthy(critique) THEN critique ELSE Str(<<>>))

RevisionRequest(revision_request) ==
    Occurrence("RevisionRequest", IF Truthy(revision_request) THEN revision_request ELSE Str(<<>>))

Revision(emotion, says) ==
    Occurrence("Revision", Dict({<<"emotion", OrEmpty(emotion)>>, <<"says", OrEmpty(says)>>}))

\* Occurrence.subtypes(): the names of the variant classes.
subtypes ==
    {"Instructions", "Example", "Begin", "Context", "Self", "Participant",
     "Motivation", "Observation", "Thought", "Identification", "Waiting",
     "Resuming", "Working", "Action", "Rejected", "CritiqueRequest", "Critique",
     "RevisionRequest", "Revision"}

\* The variants by the shape their content is documented to have.
TextKinds ==
    {"Instructions", "Begin", "Motivation", "Observation", "Thought",
     "CritiqueRequest", "Critique", "RevisionRequest"}
UtteranceKinds == {"Self", "Participant", "Rejected", "Revision"}
MappingKinds == {"Context", "Waiting", "Resuming", "Working", "Action"}

\* The sub-field names of the variants whose content is a mapping of sub-fields.
SubFields(kind) ==
    CASE kind = "Example" -> {"title", "example"}
      [] kind = "Identification" -> {"kind", "name"}
      [] kind = "Participant" -> {"name", "emotion", "says"}
      [] OTHER -> {"emotion", "says"}

\* A constructor call `Kind(*args)`, args a tuple of Python values.
Construct(c) ==
    CASE c.kind = "Instructions" -> Instructions(c.args[1])
      [] c.kind = "Example" -> Example(c.args[1], c.args[2])
      [] c.kind = "Begin" -> Begin
      [] c.kind = "Context" -> Context(c.args[1])
      [] c.kind = "Self" -> Self(c.args[1], c.args[2])
      [] c.kind = "Participant" -> Participant(c.args[1], c.args[2], c.args[3])
      [] c.kind = "Motivation" -> Motivation(c.args[1])
      [] c.kind = "Observation" -> Observation(c.args[1])
      [] c.kind = "Thought" -> Thought(c.args[1])
      [] c.kind = "Identification" -> Identification(c.args[1], c.args[2])
      [] c.kind = "Waiting" -> Waiting(c.args[1])
      [] c.kind = "Resuming" -> Resuming(c.args[1])
      [] c.kind = "Working" -> Working(c.args[1])
      [] c.kind = "Action" -> Action(c.args[1])
      [] c.kind = "Rejected" -> Rejected(c.args[1], c.args[2])
      [] c.kind = "CritiqueRequest" -> CritiqueRequest(c.args[1])
      [] c.kind = "Critique" -> Critique(c.args[1])
      [] c.kind = "RevisionRequest" -> RevisionRequest(c.args[1])
      [] c.kind = "Revision" -> Revision(c.args[1], c.args[2])

(***************************************************************************)
(* The structured (dict) route                                             *)
(***************************************************************************)
\* Python's None where a str is expected (a kind, an id, a timestamp).
PyNone == "<None>"

\* Occurrence.to_dict: a deep copy of the instance dict plus the kind tag.
Occurrence_to_dict(o) ==
    [keys |-> {"content", "kind"}, kind |-> o.kind, content |-> o.content]

\* Moment.to_dict
Moment_to_dict(mo) ==
    [keys |-> {"id", "occurrences"},
     id |-> mo.id,
     occurrences |-> [i \in 1..Len(mo.occurrences) |-> Occurrence_to_dict(mo.occurrences[i])]]

Raise(exc) == [exc |-> exc, occ |-> <<>>]
Appended(o) == [exc |-> "", occ |-> <<o>>]
\* A chain that ended in `else: raise`.
Skipped_raising == [exc |-> "ValueError", occ |-> <<>>]
\* No branch of the if/elif chain matched: nothing is appended, nothing raised.
Skipped == [exc |-> "", occ |-> <<>>]

\* `occurrence["content"]`, passed as the one positional argument.
PositionalError(e) == IF "content" \notin e.keys THEN "KeyError" ELSE ""

\* `**occurrence["content"]`: the content must be a mapping whose keys are
\* exactly the constructor's parameters (none of them has a default).
KeywordError(e, params) ==
    IF "content" \notin e.keys THEN "KeyError"
    ELSE IF e.content.t # "dict" \/ DictKeys(e.content) # params THEN "TypeError"
    ELSE ""

\* The keyword argument p of `**occurrence["content"]`.
Kw(e, p) == Str(DictGet(e.content, p))

\* `occurrences.append(Kind(...))`, unless evaluating the arguments raised.
AppendOcc(err, o) == IF err # "" THEN Raise(err) ELSE Appended(o)

\* The if/elif chain of Moment._parse_dict on one entry whose kind was popped.
Dispatch(kind, e) ==
    CASE kind = "Instructions" -> AppendOcc(PositionalError(e), Instructions(e.content))
      [] kind = "Example" ->
            AppendOcc(KeywordError(e, {"title", "example"}), Example(Kw(e, "title"), Kw(e, "example")))
      [] kind = "Begin" -> Appended(Begin)
      [] kind = "Thought" -> AppendOcc(PositionalError(e), Thought(e.content))
      [] kind = "Motivation" -> AppendOcc(PositionalError(e), Motivation(e.content))
      [] kind = "Observation" -> AppendOcc(PositionalError(e), Observation(e.content))
      [] kind = "Self" ->
            AppendOcc(KeywordError(e, {"emotion", "says"}), Self(Kw(e, "emotion"), Kw(e, "says")))
      [] kind = "Identification" ->
            AppendOcc(KeywordError(e, {"kind", "name"}), Identification(Kw(e, "kind"), Kw(e, "name")))
      [] kind = "Context" -> AppendOcc(PositionalError(e), Context(e.content))
      [] kind = "Action" -> AppendOcc(KeywordError(e, {"action"}), Action(Kw(e, "action")))
      [] kind = "Waiting" -> AppendOcc(KeywordError(e, {"waiting_on"}), Waiting(Kw(e, "waiting_on")))
      [] kind = "Resuming" -> AppendOcc(KeywordError(e, {"resuming_on"}), Resuming(Kw(e, "resuming_on")))
      [] kind = "Working" -> AppendOcc(KeywordError(e, {"working_on"}), Working(Kw(e, "working_on")))
      [] kind = "Rejected" ->
            AppendOcc(KeywordError(e, {"emotion", "says"}), Rejected(Kw(e, "emotion"), Kw(e, "says")))
      [] kind = "CritiqueRequest" -> AppendOcc(PositionalError(e), CritiqueRequest(e.content))
      [] kind = "Critique" -> AppendOcc(PositionalError(e), Critique(e.content))
      [] kind = "RevisionRequest" -> AppendOcc(PositionalError(e), RevisionRequest(e.content))
      [] kind = "Revision" ->
            AppendOcc(KeywordError(e, {"emotion", "says"}), Revision(Kw(e, "emotion"), Kw(e, "says")))
      [] kind = "Participant" ->
            AppendOcc(KeywordError(e, {"name", "emotion", "says"}),
                   Participant(Kw(e, "name"), Kw(e, "emotion"), Kw(e, "says")))
      [] OTHER -> Skipped

\* `kind = occurrence.pop("kind", None)`: the entry after the pop.
PopKind(e) == [e EXCEPT !.keys = @ \ {"kind"}, !.kind = PyNone]

\* The loop of Moment._parse_dict from entry i on; entries is the list as the
\* loop has left it so far (every visited entry has lost its kind key).
RECURSIVE parse_loop(_, _, _)
parse_loop(entries, i, acc) ==
    IF i > Len(entries)
    THEN [exc |-> "", occurrences |-> acc, entries |-> entries]
    ELSE LET kind == IF "kind" \in entries[i].keys THEN entries[i].kind ELSE PyNone
             popped == PopKind(entries[i])
             left == [entries EXCEPT ![i] = popped]
             r == Dispatch(kind, popped)
         IN  IF r.exc # ""
             THEN [exc |-> r.exc, occurrences |-> <<>>, entries |-> left]
             ELSE parse_loop(left, i + 1, acc \o r.occ)

NoMoment == [id |-> PyNone, occurrences |-> <<>>]

\* Moment.parse on a mapping: the outcome (exception or Moment) and the mapping
\* as the call leaves it.
Moment_parse_dict(d) ==
    IF "id" \notin d.keys \/ "occurrences" \notin d.keys
    THEN [exc |-> "KeyError", moment |-> NoMoment, d |-> d]
    ELSE LET r == parse_loop(d.occurrences, 1, <<>>)
         IN  [exc |-> r.exc,
              moment |-> IF r.exc = "" THEN [id |-> d.id, occurrences |-> r.occurrences]
                         ELSE NoMoment,
              d |-> [d EXCEPT !.occurrences = r.entries]]

(***************************************************************************)
(* Canonical text (the __str__ methods)                                    *)
(***************************************************************************)
Q3 == <<QUOTE, QUOTE, QUOTE>>
\* The backquote character, written as a word.
TICK == "BACKQUOTE"
TICK3 == <<TICK, TICK, TICK>>

\* The keys a content mapping may hold, in the sorted order yaml.dump emits.
KeyOrder == <<"action", "k">>

\* `k: v` lines of the pairs of mapping v whose key is KeyOrder[i] or later.
RECURSIVE yaml_lines(_, _)
yaml_lines(v, i) ==
    IF i > Len(KeyOrder) THEN <<>>
    ELSE IF KeyOrder[i] \in DictKeys(v)
         THEN <<KeyOrder[i], ":", " ">> \o DictGet(v, KeyOrder[i]) \o <<NL>> \o yaml_lines(v, i + 1)
         ELSE yaml_lines(v, i + 1)

strip(s) == IF s # <<>> /\ s[Len(s)] = NL THEN SubSeq(s, 1, Len(s) - 1) ELSE s

\* yaml.dump(content, default_flow_style=False): block style, one `key: value`
\* line per pair; an empty mapping is `{}`, an empty str is `''`, and a plain
\* str is followed by the document end marker.
yaml_dump(v) ==
    IF v.t = "dict"
    THEN (IF v.m = {} THEN <<"{", "}", NL>> ELSE yaml_lines(v, 1))
    ELSE IF v.s = <<>> THEN <<"'", "'", NL>>
    ELSE v.s \o <<NL, ".", ".", ".", NL>>

\* `says.replace('"', '\\"')`
RECURSIVE escape_quotes(_)
escape_quotes(s) ==
    IF s = <<>> THEN <<>>
    ELSE (IF Head(s) = QUOTE THEN <<BSLASH, QUOTE>> ELSE <<Head(s)>>) \o escape_quotes(Tail(s))

Contains(s, ch) == \E i \in 1..Len(s) : s[i] = ch

\* `f"({emotion}) " if emotion else ""`
emotion_str(emotion) == IF emotion # <<>> THEN <<"(">> \o emotion \o <<")", " ">> ELSE <<>>

\* `f'"""{says}"""' if "\n" in says else f'"{says}"'`, says already escaped.
says_str(says) ==
    IF Contains(says, NL) THEN Q3 \o says \o Q3 ELSE <<QUOTE>> \o says \o <<QUOTE>>

Instructions_str(o) == <<"I","n","s","t","r","u","c","t","i","o","n","s",":"," ">> \o Q3 \o o.content.s \o Q3

Example_str(o) ==
    <<"E","x","a","m","p","l","e",":"," ">> \o DictGet(o.content, "title")
        \o <<" ", "-", " ", "'", "'", "'">> \o DictGet(o.content, "example") \o <<"'", "'", "'">>

Begin_str(o) == <<"B","e","g","i","n",".">>

Context_str(o) == <<"C","o","n","t","e","x","t",":"," ">> \o TICK3 \o strip(yaml_dump(o.content)) \o TICK3

Self_str(o) ==
    <<"S","e","l","f",":"," ">> \o emotion_str(DictGet(o.content, "emotion"))
        \o says_str(escape_quotes(DictGet(o.content, "says")))

Participant_str(o) ==
    DictGet(o.content, "name") \o <<":", " ">> \o emotion_str(DictGet(o.content, "emotion"))
        \o says_str(escape_quotes(DictGet(o.content, "says")))

Motivation_str(o) == <<"M","o","t","i","v","a","t","i","o","n",":"," ">> \o o.content.s

Observation_str(o) == <<"O","b","s","e","r","v","a","t","i","o","n",":"," ">> \o o.content.s \o <<NL>>

Thought_str(o) == <<"T","h","o","u","g","h","t",":"," ">> \o Q3 \o o.content.s \o Q3

Identification_str(o) ==
    <<"I","d","e","n","t","i","f","i","c","a","t","i","o","n",":"," ">> \o DictGet(o.content, "kind")
        \o <<" ","i","s"," ","c","a","l","l","e","d"," ",QUOTE>> \o DictGet(o.content, "name")
        \o <<QUOTE, ".">>

Waiting_str(o) == <<"W","a","i","t","i","n","g",":"," ">> \o TICK3 \o strip(yaml_dump(o.content)) \o TICK3

Resuming_str(o) == <<"R","e","s","u","m","i","n","g",":"," ">> \o TICK3 \o strip(yaml_dump(o.content)) \o TICK3

Working_str(o) == <<"W","o","r","k","i","n","g",":"," ">> \o TICK3 \o strip(yaml_dump(o.content)) \o TICK3

Action_str(o) == <<"A","c","t","i","o","n",":"," ">> \o TICK3 \o strip(yaml_dump(o.content)) \o TICK3

Rejected_str(o) ==
    <<"R","e","j","e","c","t","e","d",":"," ">> \o emotion_str(DictGet(o.content, "emotion"))
        \o says_str(escape_quotes(DictGet(o.content, "says")))

CritiqueRequest_str(o) ==
    <<"C","r","i","t","i","q","u","e"," ","R","e","q","u","e","s","t",":"," ">> \o o.content.s

Critique_str(o) == <<"C","r","i","t","i","q","u","e",":"," ">> \o o.content.s

RevisionRequest_str(o) ==
    <<"R","e","v","i","s","i","o","n"," ","R","e","q","u","e","s","t",":"," ">> \o o.content.s

Revision_str(o) ==
    <<"R","e","v","i","s","i","o","n",":"," ">> \o emotion_str(DictGet(o.content, "emotion"))
        \o says_str(escape_quotes(DictGet(o.content, "says")))

\* str(occurrence): the __str__ of the occurrence's class.
Occurrence_str(o) ==
    CASE o.kind = "Instructions" -> Instructions_str(o)
      [] o.kind = "Example" -> Example_str(o)
      [] o.kind = "Begin" -> Begin_str(o)
      [] o.kind = "Context" -> Context_str(o)
      [] o.kind = "Self" -> Self_str(o)
      [] o.kind = "Participant" -> Participant_str(o)
      [] o.kind = "Motivation" -> Motivation_str(o)
      [] o.kind = "Observation" -> Observation_str(o)
      [] o.kind = "Thought" -> Thought_str(o)
      [] o.kind = "Identification" -> Identification_str(o)
      [] o.kind = "Waiting" -> Waiting_str(o)
      [] o.kind = "Resuming" -> Resuming_str(o)
      [] o.kind = "Working" -> Working_str(o)
      [] o.kind = "Action" -> Action_str(o)
      [] o.kind = "Rejected" -> Rejected_str(o)
      [] o.kind = "CritiqueRequest" -> CritiqueRequest_str(o)
      [] o.kind = "Critique" -> Critique_str(o)
      [] o.kind = "RevisionRequest" -> RevisionRequest_str(o)
      [] o.kind = "Revision" -> Revision_str(o)

\* Moment.__str__ over a list of occurrences.
RECURSIVE Moment_str_loop(_)
Moment_str_loop(occs) ==
    IF occs = <<>> THEN <<>>
    ELSE Occurrence_str(Head(occs)) \o <<NL>> \o Moment_str_loop(Tail(occs))

Moment_str(mo) == Moment_str_loop(mo.occurrences)

(***************************************************************************)
(* The text route: the grammar (grammar.peg) and the reducer (walk)        *)
(***************************************************************************)
StartsWith(text, i, lit) ==
    i + Len(lit) - 1 <= Len(text) /\ SubSeq(text, i, i + Len(lit) - 1) = lit

\* The first position at or after i where lit starts; 0 when there is none.
RECURSIVE Find(_, _, _)
Find(text, i, lit) ==
    IF i + Len(lit) - 1 > Len(text) THEN 0
    ELSE IF StartsWith(text, i, lit) THEN i
    ELSE Find(text, i + 1, lit)

NoMatch == [ok |-> FALSE, pos |-> 0, caps |-> {}]
Match(pos, caps) == [ok |-> TRUE, pos |-> pos, caps |-> caps]

\* q_content from j on: the position of the closing quote, 0 when the line ends
\* first.  A backslash takes the character after it with it.
RECURSIVE q_end(_, _)
q_end(text, j) ==
    IF j > Len(text) \/ text[j] = NL THEN 0
    ELSE IF text[j] = QUOTE THEN j
    ELSE IF text[j] = BSLASH /\ j < Len(text) /\ text[j + 1] # NL THEN q_end(text, j + 2)
    ELSE q_end(text, j + 1)

\* q_string: '"' q_content '"'
q_string(text, i) ==
    IF ~StartsWith(text, i, <<QUOTE>>) THEN NoMatch
    ELSE LET j == q_end(text, i + 1)
         IN  IF j = 0 THEN NoMatch
             ELSE Match(j + 1, {<<"q_content", SubSeq(text, i + 1, j - 1)>>})

\* tq_string: '"""' tq_content '"""', the content running verbatim to the next '"""'
tq_string(text, i) ==
    IF ~StartsWith(text, i, Q3) THEN NoMatch
    ELSE LET j == Find(text, i + 3, Q3)
         IN  IF j = 0 THEN NoMatch
             ELSE Match(j + 3, {<<"tq_content", SubSeq(text, i + 3, j - 1)>>})

\* says_string: tq_string / q_string
says_string(text, i) ==
    IF tq_string(text, i).ok THEN tq_string(text, i) ELSE q_string(text, i)

\* emotion?: "(" emotion_content ")" and a space, or nothing
emotion(text, i) ==
    IF ~StartsWith(text, i, <<"(">>) THEN Match(i, {})
    ELSE LET j == Find(text, i + 1, <<")", " ">>)
         IN  IF j = 0 THEN Match(i, {})
             ELSE Match(j + 2, {<<"emotion_content", SubSeq(text, i + 1, j - 1)>>})

\* keyword emotion? says_string
utterance(text, i, keyword) ==
    IF ~StartsWith(text, i, keyword) THEN NoMatch
    ELSE LET e == emotion(text, i + Len(keyword))
             s == says_string(text, e.pos)
         IN  IF s.ok THEN Match(s.pos, e.caps \cup s.caps) ELSE NoMatch

\* participant ": " emotion? says_string, the participant running to the colon
participant(text, i) ==
    LET j == Find(text, i, <<":", " ">>)
    IN  IF j = 0 \/ Contains(SubSeq(text, i, j - 1), NL) THEN NoMatch
        ELSE LET r == utterance(text, j, <<":", " ">>)
             IN  IF r.ok THEN Match(r.pos, r.caps \cup {<<"participant", SubSeq(text, i, j - 1)>>})
                 ELSE NoMatch

Node(expr_name, r) == [ok |-> r.ok, pos |-> r.pos, expr_name |-> expr_name, caps |-> r.caps]

\* Occurrence: the ordered choice over the kinds, the keyword kinds first.
occurrence_at(text, i) ==
    IF StartsWith(text, i, <<"B","e","g","i","n",".">>)
    THEN Node("Begin", Match(i + 6, {}))
    ELSE IF utterance(text, i, <<"S","e","l","f",":"," ">>).ok
    THEN Node("Self", utterance(text, i, <<"S","e","l","f",":"," ">>))
    ELSE IF utterance(text, i, <<"R","e","j","e","c","t","e","d",":"," ">>).ok
    THEN Node("Rejected", utterance(text, i, <<"R","e","j","e","c","t","e","d",":"," ">>))
    ELSE IF utterance(text, i, <<"R","e","v","i","s","i","o","n",":"," ">>).ok
    THEN Node("Revision", utterance(text, i, <<"R","e","v","i","s","i","o","n",":"," ">>))
    ELSE IF StartsWith(text, i, <<"T","h","o","u","g","h","t",":"," ">>)
            /\ says_string(text, i + 9).ok
    THEN Node("Thought", says_string(text, i + 9))
    ELSE Node("Participant", participant(text, i))

\* Occurrences: occurrence lines, each ended by a newline, blank lines between.
RECURSIVE GRAMMAR_parse_from(_, _, _)
GRAMMAR_parse_from(text, i, nodes) ==
    IF i > Len(text) THEN [ok |-> TRUE, nodes |-> nodes]
    ELSE IF text[i] = NL THEN GRAMMAR_parse_from(text, i + 1, nodes)
    ELSE LET n == occurrence_at(text, i)
         IN  IF ~n.ok \/ (n.pos <= Len(text) /\ text[n.pos] # NL)
             THEN [ok |-> FALSE, nodes |-> <<>>]
             ELSE GRAMMAR_parse_from(text, n.pos, Append(nodes, n))

GRAMMAR_parse(text) == GRAMMAR_parse_from(text, 1, <<>>)

\* The kinds whose lines the grammar above reads.
GrammarKinds == UtteranceKinds \cup {"Begin", "Thought"}

\* `x = ""`, then `x = child.text` for the child named name, when there is one.
Capture(node, name) ==
    IF \E c \in node.caps : c[1] = name
    THEN (CHOOSE c \in node.caps : c[1] = name)[2]
    ELSE <<>>

\* The says of an utterance node: the raw text of q_content or of tq_content.
walk_says(node) ==
    IF \E c \in node.caps : c[1] = "tq_content"
    THEN Capture(node, "tq_content")
    ELSE Capture(node, "q_content")

\* walk on one occurrence node.
walk(node) ==
    CASE node.expr_name = "Begin" -> Begin
      [] node.expr_name = "Self" ->
            Self(Str(Capture(node, "emotion_content")), Str(walk_says(node)))
      [] node.expr_name = "Rejected" ->
            Rejected(Str(Capture(node, "emotion_content")), Str(walk_says(node)))
      [] node.expr_name = "Thought" -> Thought(Str(walk_says(node)))
      [] node.expr_name = "Revision" ->
            Revision(Str(Capture(node, "emotion_content")), Str(walk_says(node)))
      [] node.expr_name = "Participant" ->
            Participant(Str(Capture(node, "participant")),
                        Str(Capture(node, "emotion_content")), Str(walk_says(node)))

\* The literal part of the comment line that carries the Moment id.
H_MOMENT_ID == "# Moment Id: "

\* The leading comment line: its literal, a value that is no newline, a newline.
comment_line(text) ==
    IF Len(text) >= 3 /\ text[1] = H_MOMENT_ID /\ text[2] # NL /\ text[3] = NL
    THEN Match(4, {<<"value", text[2]>>})
    ELSE NoMatch

\* Moment._parse_text: the id is the empty string, the occurrences are walked
\* off the parse tree; a text the grammar rejects raises.
Moment_parse_text(text) ==
    LET parsed == GRAMMAR_parse(text)
    IN  IF ~parsed.ok THEN [exc |-> "ParseError", moment |-> NoMoment]
        ELSE [exc |-> "",
              moment |-> [id |-> "",
                          occurrences |-> [i \in 1..Len(parsed.nodes) |-> walk(parsed.nodes[i])]]]

\* walk lines 493-496 on the node of the leading comment: a node of a named
\* rule that is neither Occurrence nor Occurrences fails the assertion, a node
\* without a name is passed over.
walk_comment(comment_named, rest) ==
    IF comment_named THEN [exc |-> "AssertionError", moment |-> NoMoment] ELSE rest

\* Moment._parse_text on a text that may begin with the comment line.  The
\* grammar file is not part of the sources: comment_named says whether its
\* rule for the comment line has a name.
Moment_parse_commented(text, comment_named) ==
    IF comment_line(text).ok
    THEN walk_comment(comment_named, Moment_parse_text(SubSeq(text, 4, Len(text))))
    ELSE Moment_parse_text(text)

(***************************************************************************)
(* The codec as a state machine: a Moment is built from constructor calls, *)
(* or a mapping is handed in; Moment.to_dict, Moment.parse (twice on the   *)
(* same mapping), str(Moment) and Moment.parse on the text are applied.    *)
(***************************************************************************)
VARIABLES
    given,  \* what the caller starts from: "calls" or "dict"
    calls,  \* the constructor calls that build the Moment's occurrences
    m,      \* the Moment built
    mpc,    \* "new" | "built"
    d,      \* the mapping object handed to Moment.parse
    d0,     \* the mapping as it was when first handed to Moment.parse
    res1,   \* outcome of the first Moment.parse(d)
    res2,   \* outcome of the second Moment.parse(d), same object
    dpc,    \* "none" | "dict" | "parsed" | "reparsed"
    txt,    \* str(m)
    tres,   \* outcome of Moment.parse(txt)
    txt2,   \* str(Moment.parse(txt))
    tpc     \* "none" | "text" | "parsed" | "text2"

codec_vars == <<given, calls, m, mpc, d, d0, res1, res2, dpc, txt, tres, txt2, tpc>>

\* The state of the Snapshot objects and of the Agent's turn.
VARIABLES
    snapshots,   \* the Snapshot objects, by reference 1..Len(snapshots)
    pexc,        \* the exception of the last Snapshot.parse, "" when it returned
    apc,         \* Agent.next: "idle" | "before" | "do" | "after" | "chain" | "returned" | "raised"
    arg,         \* the reference passed to Agent.next
    snapshots0,  \* the Snapshot objects as they were when Agent.next was called
    ret,         \* the reference Agent.next returned, 0 when none
    aexc,        \* the exception that ended Agent.next, "" when none
    uuids,       \* how many uuid4() were drawn
    clock,       \* how many datetime.now() were read
    turns,       \* how many Agent.next calls were made
    called,      \* the hooks invoked so far in this Agent.next call, in order
    advances,    \* how many Agent.next calls got past their hooks
    sysres,      \* outcome of the last Agent.system call
    seeds,       \* how many Agent.system calls were made
    chain        \* own id and predecessor id of every Snapshot that system or next returned

agent_vars == <<snapshots, pexc, apc, arg, snapshots0, ret, aexc, uuids, clock, turns,
                called, advances, sysres, seeds, chain>>

\* Snapshot.parse and str(Snapshot) applied to one input.
VARIABLES
    sgiven,  \* what the caller starts from: "none" | "snapshot" | "text" | "dict"
    snap,    \* the Snapshot constructed
    sobj,    \* the mapping handed to Snapshot.parse
    stxt,    \* the text: str(snap), or the text handed to Snapshot.parse
    sres,    \* outcome of Snapshot.parse
    stxt2,   \* str(Snapshot.parse(...))
    spc      \* "none" | "new" | "text" | "dict" | "parsed" | "text2"

snap_vars == <<sgiven, snap, sobj, stxt, sres, stxt2, spc>>

vars == <<given, calls, m, mpc, d, d0, res1, res2, dpc, txt, tres, txt2, tpc,
          snapshots, pexc, apc, arg, snapshots0, ret, aexc, uuids, clock, turns,
          called, advances, sysres, seeds, chain,
          sgiven, snap, sobj, stxt, sres, stxt2, spc>>

NoResult == [exc |-> "<none>", moment |-> NoMoment]
NoDict == [keys |-> {}, id |-> PyNone, occurrences |-> <<>>]

\* Snapshot.__init__: the attributes of the new object.
Snapshot(moment_id, snapshot_id, moment, previous_snapshot_id, timestamp, annotations) ==
    [moment_id |-> moment_id,
     snapshot_id |-> snapshot_id,
     moment |-> moment,
     previous_snapshot_id |-> previous_snapshot_id,
     timestamp |-> timestamp,
     annotations |-> annotations]

NoSnapshot == Snapshot(PyNone, PyNone, NoMoment, PyNone, PyNone, None)

\* No Snapshot.parse yet, no mapping handed to it, no Agent.system yet.
NoParsed == [exc |-> "<none>", snapshot |-> NoSnapshot]
NoSnapshotDict ==
    [keys |-> {}, moment_id |-> PyNone, snapshot_id |-> PyNone, previous_snapshot_id |-> PyNone,
     timestamp |-> PyNone, annotations |-> None, moment |-> NoDict]
NoSeed == [exc |-> "<none>", ret |-> 0, init |-> <<>>]

\* Input sets.
CharSet == {"a", QUOTE, NL}
Strings(n) == UNION {[1..k -> CharSet] : k \in 0..n}
SeqsUpTo(S, n) == UNION {[1..k -> S] : k \in 0..n}

Call(kind, args) == [kind |-> kind, args |-> args]

TextArgs == {None, Str(<<>>), Str(<<"a">>)}
SaysArgs == {None} \cup {Str(s) : s \in Strings(MaxLen)}
EmotionArgs == {None, Str(<<"e">>)}
NameArgs == {None, Str(<<"P">>)}
MapArgs == {None, Dict({}), Dict({<<"k", <<"v">>>>}), Dict({<<"action", <<"v">>>>})}

\* Every variant, called with every combination of the arguments above.
OccCalls ==
    {Call(k, <<a>>) : k \in TextKinds \ {"Begin"}, a \in TextArgs}
    \cup {Call("Begin", <<>>)}
    \cup {Call("Example", <<a, b>>) : a \in {None, Str(<<"t">>)}, b \in {None, Str(<<"x">>)}}
    \cup {Call("Identification", <<a, b>>) : a \in NameArgs, b \in {None, Str(<<"n">>)}}
    \cup {Call(k, <<e, s>>) : k \in {"Self", "Rejected", "Revision"}, e \in EmotionArgs, s \in SaysArgs}
    \cup {Call("Participant", <<n, e, s>>) : n \in NameArgs, e \in EmotionArgs, s \in SaysArgs}
    \cup {Call(k, <<a>>) : k \in MappingKinds, a \in MapArgs}

\* The calls that lists of several occurrences are drawn from.
SeqCalls ==
    {Call("Begin", <<>>),
     Call("Observation", <<Str(<<"a">>)>>),
     Call("Motivation", <<Str(<<"a">>)>>),
     Call("Thought", <<Str(<<"a">>)>>),
     Call("Self", <<None, Str(<<"a", QUOTE>>)>>),
     Call("Participant", <<Str(<<"P">>), Str(<<"e">>), Str(<<"a">>)>>),
     Call("Context", <<Dict({<<"k", <<"v">>>>})>>),
     Call("Waiting", <<Dict({<<"k", <<"v">>>>})>>),
     Call("Action", <<None>>)}

Entry(keys, kind, content) == [keys |-> keys, kind |-> kind, content |-> content]

\* Entries of a mapping handed in: well-formed ones, ones of no known kind
\* (a kind that is no variant, or no kind key at all), and a known kind
\* without its content.
RawEntries ==
    {Occurrence_to_dict(Begin),
     Occurrence_to_dict(Self(None, Str(<<"a">>))),
     Occurrence_to_dict(Context(Dict({<<"k", <<"v">>>>}))),
     Entry({"content", "kind"}, "Bogus", Dict({})),
     Entry({"content", "kind"}, "Chosen", Str(<<"a">>)),
     Entry({"content"}, PyNone, Str(<<"a">>)),
     Entry({"kind"}, "Thought", None)}

RawDicts ==
    {[keys |-> {"id", "occurrences"}, id |-> "m1", occurrences |-> es] :
        es \in SeqsUpTo(RawEntries, MaxOccs)}
    \cup {[keys |-> {"occurrences"}, id |-> PyNone, occurrences |-> <<>>]}

\* Texts handed to Moment.parse that begin with the Moment id comment.
RawMomentTexts ==
    {<<H_MOMENT_ID, v, NL>> \o Moment_str([id |-> "", occurrences |-> occs]) :
        v \in {"m1", "m2"},
        occs \in SeqsUpTo({Begin, Thought(Str(<<"a">>)), Self(None, Str(<<"a">>))}, MaxOccs)}

InitCodec ==
    /\ snapshots = <<>> /\ pexc = ""
    /\ apc = "idle" /\ arg = 0 /\ snapshots0 = <<>> /\ ret = 0 /\ aexc = ""
    /\ uuids = 0 /\ clock = 0 /\ turns = 0
    /\ called = <<>> /\ advances = 0 /\ sysres = NoSeed /\ seeds = 0 /\ chain = <<>>
    /\ sgiven = "none" /\ snap = NoSnapshot /\ sobj = NoSnapshotDict
    /\ stxt = <<>> /\ sres = NoParsed /\ stxt2 = <<>> /\ spc = "none"
    /\ m = NoMoment /\ mpc = "new"
    /\ res1 = NoResult /\ res2 = NoResult
    /\ tres = NoResult /\ txt2 = <<>>
    /\ \/ /\ given = "calls"
          /\ calls \in {<<c>> : c \in OccCalls} \cup SeqsUpTo(SeqCalls, MaxOccs)
          /\ d = NoDict /\ d0 = NoDict /\ dpc = "none"
          /\ txt = <<>> /\ tpc = "none"
       \/ /\ given = "dict"
          /\ calls = <<>>
          /\ d \in RawDicts /\ d0 = d /\ dpc = "dict"
          /\ txt = <<>> /\ tpc = "none"
       \/ /\ given = "text"
          /\ calls = <<>>
          /\ d = NoDict /\ d0 = NoDict /\ dpc = "none"
          /\ txt \in RawMomentTexts /\ tpc = "text"

\* Moment(id, occurrences), the occurrences built by the constructor calls.
Build ==
    /\ given = "calls" /\ mpc = "new"
    /\ m' = [id |-> "m1", occurrences |-> [i \in 1..Len(calls) |-> Construct(calls[i])]]
    /\ mpc' = "built"
    /\ UNCHANGED <<given, calls, d, d0, res1, res2, dpc, txt, tres, txt2, tpc>>
    /\ UNCHANGED agent_vars
    /\ UNCHANGED snap_vars

\* d = m.to_dict()
ToDict ==
    /\ mpc = "built" /\ dpc = "none"
    /\ d' = Moment_to_dict(m)
    /\ d0' = d'
    /\ dpc' = "dict"
    /\ UNCHANGED <<given, calls, m, mpc, res1, res2, txt, tres, txt2, tpc>>
    /\ UNCHANGED agent_vars
    /\ UNCHANGED snap_vars

\* Moment.parse(d): the outcome, and d as the call leaves it.
ParseDict ==
    /\ dpc = "dict"
    /\ LET r == Moment_parse_dict(d)
       IN  /\ res1' = [exc |-> r.exc, moment |-> r.moment]
           /\ d' = r.d
    /\ dpc' = "parsed"
    /\ UNCHANGED <<given, calls, m, mpc, d0, res2, txt, tres, txt2, tpc>>
    /\ UNCHANGED agent_vars
    /\ UNCHANGED snap_vars

\* Moment.parse(d) once more, on the same mapping object.
ParseDictAgain ==
    /\ dpc = "parsed"
    /\ LET r == Moment_parse_dict(d)
       IN  /\ res2' = [exc |-> r.exc, moment |-> r.moment]
           /\ d' = r.d
    /\ dpc' = "reparsed"
    /\ UNCHANGED <<given, calls, m, mpc, d0, res1, txt, tres, txt2, tpc>>
    /\ UNCHANGED agent_vars
    /\ UNCHANGED snap_vars

\* txt = str(m)
ToText ==
    /\ mpc = "built" /\ tpc = "none"
    /\ txt' = Moment_str(m)
    /\ tpc' = "text"
    /\ UNCHANGED <<given, calls, m, mpc, d, d0, res1, res2, dpc, tres, txt2>>
    /\ UNCHANGED agent_vars
    /\ UNCHANGED snap_vars

\* Moment.parse(txt), for the documents whose lines the grammar model reads.
ParseText(comment_named) ==
    /\ tpc = "text"
    /\ \A i \in 1..Len(m.occurrences) : m.occurrences[i].kind \in GrammarKinds
    /\ tres' = Moment_parse_commented(txt, comment_named)
    /\ tpc' = "parsed"
    /\ UNCHANGED <<given, calls, m, mpc, d, d0, res1, res2, dpc, txt, txt2>>
    /\ UNCHANGED agent_vars
    /\ UNCHANGED snap_vars

\* txt2 = str(Moment.parse(txt))
ToTextAgain ==
    /\ tpc = "parsed" /\ tres.exc = ""
    /\ txt2' = Moment_str(tres.moment)
    /\ tpc' = "text2"
    /\ UNCHANGED <<given, calls, m, mpc, d, d0, res1, res2, dpc, txt, tres>>
    /\ UNCHANGED agent_vars
    /\ UNCHANGED snap_vars

NextCodec ==
    \/ Build
    \/ ToDict
    \/ ParseDict
    \/ ParseDictAgain
    \/ ToText
    \/ \E comment_named \in BOOLEAN : ParseText(comment_named)
    \/ ToTextAgain

(***************************************************************************)
(* Snapshot (snapshot.py) and the Agent's turn (agent.py)                  *)
(***************************************************************************)
MaxSnapshots == 1
MaxTurns == 2
MaxSeeds == 1

\* str(uuid4()): the n-th value drawn; the values are pairwise distinct and
\* differ from every id that is read from an input.
uuid4(n) == <<"u1", "u2", "u3", "u4", "u5", "u6", "u7", "u8">>[n]

\* datetime.now().isoformat(): the n-th reading of the clock.
now(n) == <<"t1", "t2", "t3", "t4", "t5", "t6", "t7", "t8">>[n]

\* `obj.get(key, None)` for a str-valued key.
GetOrNone(obj, key, value) == IF key \in obj.keys THEN value ELSE PyNone

\* A subscript that answers None for a key that is not there.
KeyError_never(obj, key) == FALSE

\* `obj[key]` raises KeyError when obj has no such key.
KeyError(obj, key) == key \notin obj.keys

\* Snapshot.parse on a mapping: the exception, or the Snapshot built.
Snapshot_parse_dict(obj) ==
    IF KeyError(obj, "moment_id") \/ KeyError(obj, "snapshot_id") \/ KeyError(obj, "moment")
    THEN [exc |-> "KeyError", snapshot |-> NoSnapshot]
    ELSE LET r == Moment_parse_dict(obj.moment)
         IN  IF r.exc # "" THEN [exc |-> r.exc, snapshot |-> NoSnapshot]
             ELSE [exc |-> "",
                   snapshot |->
                       Snapshot(obj.moment_id, obj.snapshot_id, r.moment,
                                GetOrNone(obj, "previous_snapshot_id", obj.previous_snapshot_id),
                                GetOrNone(obj, "timestamp", obj.timestamp),
                                IF "annotations" \in obj.keys THEN obj.annotations ELSE None)]

\* The mappings Snapshot.parse is given.
SnapshotKeys == {"moment_id", "snapshot_id", "previous_snapshot_id", "timestamp", "annotations", "moment"}

SnapshotDict(keys, previous, annotations, moment) ==
    [keys |-> keys, moment_id |-> "m1", snapshot_id |-> "s1",
     previous_snapshot_id |-> previous, timestamp |-> "t0",
     annotations |-> annotations, moment |-> Moment_to_dict(moment)]

SnapshotDicts ==
    {SnapshotDict(SnapshotKeys \ drop, IF "previous_snapshot_id" \in drop THEN PyNone ELSE "s0",
                  IF "annotations" \in drop THEN None ELSE Dict({<<"k", <<"v">>>>}),
                  [id |-> "m1", occurrences |-> occs]) :
        drop \in SUBSET {"previous_snapshot_id", "annotations"},
        occs \in {<<>>, <<Begin>>}}
    \cup {SnapshotDict(SnapshotKeys \ {"snapshot_id"}, PyNone, None, [id |-> "m1", occurrences |-> <<>>])}

\* What a hook (before, do, after: abstract, written by the agent's author)
\* does to the Moment it is given: nothing, append an occurrence, or raise.
HookChoices ==
    {[k |-> "pass", o |-> Begin], [k |-> "raise", o |-> Begin],
     [k |-> "append", o |-> Self(None, Str(<<"a">>))]}

\* No Snapshot yet, the agent at rest; the codec harness is not used.
Init ==
    /\ snapshots = <<>> /\ pexc = ""
    /\ apc = "idle" /\ arg = 0 /\ snapshots0 = <<>> /\ ret = 0 /\ aexc = ""
    /\ uuids = 0 /\ clock = 0 /\ turns = 0
    /\ called = <<>> /\ advances = 0 /\ sysres = NoSeed /\ seeds = 0 /\ chain = <<>>
    /\ sgiven = "none" /\ snap = NoSnapshot /\ sobj = NoSnapshotDict
    /\ stxt = <<>> /\ sres = NoParsed /\ stxt2 = <<>> /\ spc = "none"
    /\ given = "calls" /\ calls = <<>> /\ m = NoMoment /\ mpc = "new"
    /\ d = NoDict /\ d0 = NoDict /\ res1 = NoResult /\ res2 = NoResult /\ dpc = "none"
    /\ txt = <<>> /\ tres = NoResult /\ txt2 = <<>> /\ tpc = "none"

\* snapshot = Snapshot.parse(obj)
SnapshotParse(obj) ==
    /\ apc = "idle" /\ Len(snapshots) < MaxSnapshots
    /\ LET r == Snapshot_parse_dict(obj)
       IN  /\ pexc' = r.exc
           /\ snapshots' = IF r.exc = "" THEN Append(snapshots, r.snapshot) ELSE snapshots
    /\ UNCHANGED <<apc, arg, snapshots0, ret, aexc, uuids, clock, turns>>
    /\ UNCHANGED <<called, advances, sysres, seeds, chain>>
    /\ UNCHANGED codec_vars
    /\ UNCHANGED snap_vars

\* agent.next(snapshot) is entered.
NextCall(ref) ==
    /\ apc = "idle" /\ turns < MaxTurns
    /\ ref \in 1..Len(snapshots)
    /\ arg' = ref /\ snapshots0' = snapshots /\ ret' = 0 /\ aexc' = ""
    /\ apc' = "before" /\ turns' = turns + 1
    /\ called' = <<>>
    /\ UNCHANGED <<snapshots, pexc, uuids, clock, advances, sysres, seeds, chain>>
    /\ UNCHANGED codec_vars
    /\ UNCHANGED snap_vars

\* A hook called on snapshot.moment; when it returns the call goes on at then.
Hook(h, then) ==
    /\ h.k = "append" => Len(snapshots[arg].moment.occurrences) < MaxOccs
    /\ snapshots' = IF h.k = "append"
                    THEN [snapshots EXCEPT ![arg].moment.occurrences = Append(@, h.o)]
                    ELSE snapshots
    /\ apc' = IF h.k = "raise" THEN "raised" ELSE then
    /\ aexc' = IF h.k = "raise" THEN "HookError" ELSE aexc
    /\ UNCHANGED <<pexc, arg, snapshots0, ret, uuids, clock, turns, advances, sysres, seeds, chain>>
    /\ UNCHANGED codec_vars
    /\ UNCHANGED snap_vars

\* self.before(snapshot.moment)
Before(h) ==
    /\ apc = "before"
    /\ called' = Append(called, "before")
    /\ Hook(h, "do")

\* A turn that goes from before to after without calling do.
Do_skipped(h) ==
    /\ apc = "do"
    /\ apc' = "after"
    /\ UNCHANGED <<snapshots, pexc, arg, snapshots0, ret, aexc, uuids, clock, turns>>
    /\ UNCHANGED <<called, advances, sysres, seeds, chain>>
    /\ UNCHANGED codec_vars
    /\ UNCHANGED snap_vars

\* self.do(snapshot.moment)
Do(h) ==
    /\ apc = "do"
    /\ called' = Append(called, "do")
    /\ Hook(h, "after")

\* self.after(snapshot.moment)
After(h) ==
    /\ apc = "after"
    /\ called' = Append(called, "after")
    /\ Hook(h, "chain")

\* The own id of a Snapshot object: the id attribute once Agent.next has set
\* it, the snapshot_id the constructor set otherwise.
OwnId(s) == IF "id" \in DOMAIN s THEN s.id ELSE s.snapshot_id

\* An advance that builds a new Snapshot from snapshot_id and leaves the one
\* passed in alone.
next_chain_copying(heap, ref, uuid, timestamp) ==
    [exc |-> "",
     heap |-> Append(heap, [heap[ref] EXCEPT !.previous_snapshot_id = heap[ref].snapshot_id,
                                             !.snapshot_id = uuid,
                                             !.timestamp = timestamp]),
     ret |-> Len(heap) + 1]

\* Agent.next lines 71-74 on the objects heap for the Snapshot at ref: reading
\* snapshot.id raises AttributeError on an object without that attribute;
\* otherwise the object itself is re-linked and returned.
next_chain(heap, ref, uuid, timestamp) ==
    IF "id" \notin DOMAIN heap[ref]
    THEN [exc |-> "AttributeError", heap |-> heap, ret |-> 0]
    ELSE [exc |-> "",
          heap |-> [heap EXCEPT ![ref] = [@ EXCEPT !.previous_snapshot_id = heap[ref].id,
                                                   !.id = uuid,
                                                   !.timestamp = timestamp]],
          ret |-> ref]

Chain ==
    /\ apc = "chain"
    /\ LET r == next_chain(snapshots, arg, uuid4(uuids + 1), now(clock + 1))
       IN  /\ snapshots' = r.heap
           /\ ret' = r.ret
           /\ aexc' = r.exc
           /\ apc' = IF r.exc = "" THEN "returned" ELSE "raised"
           /\ uuids' = IF r.exc = "" THEN uuids + 1 ELSE uuids
           /\ clock' = IF r.exc = "" THEN clock + 1 ELSE clock
           /\ chain' = IF r.exc = ""
                       THEN Append(chain, [id |-> OwnId(r.heap[r.ret]),
                                           previous |-> r.heap[r.ret].previous_snapshot_id])
                       ELSE chain
    /\ advances' = advances + 1
    /\ UNCHANGED <<pexc, arg, snapshots0, turns, called, sysres, seeds>>
    /\ UNCHANGED codec_vars
    /\ UNCHANGED snap_vars

\* The caller takes the outcome of Agent.next and goes on.
Handle ==
    /\ apc \in {"returned", "raised"}
    /\ apc' = "idle"
    /\ UNCHANGED <<snapshots, pexc, arg, snapshots0, ret, aexc, uuids, clock, turns>>
    /\ UNCHANGED <<called, advances, sysres, seeds, chain>>
    /\ UNCHANGED codec_vars
    /\ UNCHANGED snap_vars

\* The parameters of Snapshot.__init__, all without a default.
SnapshotParams ==
    {"moment_id", "snapshot_id", "moment", "previous_snapshot_id", "timestamp", "annotations"}

\* Snapshot(**kwargs): a keyword that is no parameter, or a parameter without
\* an argument, raises TypeError before __init__ runs.
Snapshot_call(kwargs) ==
    IF DOMAIN kwargs # SnapshotParams
    THEN [exc |-> "TypeError", snapshot |-> NoSnapshot, drawn |-> 0]
    ELSE [exc |-> "", drawn |-> 0,
          snapshot |-> Snapshot(kwargs.moment_id, kwargs.snapshot_id, kwargs.moment,
                                kwargs.previous_snapshot_id, kwargs.timestamp, kwargs.annotations)]

\* self.config.init: the agent's initial template, an MDL text.
Templates ==
    {<<>>,
     Moment_str([id |-> "", occurrences |-> <<Begin>>]),
     Moment_str([id |-> "", occurrences |-> <<Thought(Str(<<"a">>)), Begin>>]),
     <<"x", NL>>}

\* Agent.system lines 58-65 for the outcome parsed of Moment.parse, the next
\* uuid4() values uuid_moment and uuid_snapshot and the clock reading timestamp.
system_snapshot(parsed, uuid_moment, uuid_snapshot, timestamp) ==
    IF parsed.exc # "" THEN [exc |-> parsed.exc, snapshot |-> NoSnapshot, drawn |-> 0]
    ELSE [Snapshot_call([id |-> uuid_snapshot,
                         moment |-> [parsed.moment EXCEPT !.id = uuid_moment],
                         previous_snapshot_id |-> PyNone,
                         timestamp |-> timestamp,
                         annotations |-> Dict({})])
          EXCEPT !.drawn = 2]

\* Agent.system ends with outcome r: the Snapshot returned is a new object.
SystemEnds(init, r) ==
    /\ snapshots' = IF r.exc = "" THEN Append(snapshots, r.snapshot) ELSE snapshots
    /\ sysres' = [exc |-> r.exc, ret |-> IF r.exc = "" THEN Len(snapshots) + 1 ELSE 0,
                  init |-> init]
    /\ chain' = IF r.exc = ""
                THEN Append(chain, [id |-> OwnId(r.snapshot),
                                    previous |-> r.snapshot.previous_snapshot_id])
                ELSE chain
    /\ uuids' = uuids + r.drawn
    /\ clock' = clock + (IF r.drawn = 0 THEN 0 ELSE 1)

\* snapshot = agent.system(), self.config.init being init
System(init) ==
    /\ apc = "idle" /\ seeds < MaxSeeds
    /\ SystemEnds(init, system_snapshot(Moment_parse_text(init), uuid4(uuids + 1),
                                        uuid4(uuids + 2), now(clock + 1)))
    /\ seeds' = seeds + 1
    /\ UNCHANGED <<pexc, apc, arg, snapshots0, ret, aexc, turns, called, advances>>
    /\ UNCHANGED codec_vars
    /\ UNCHANGED snap_vars

NextAgent ==
    \/ \E obj \in SnapshotDicts : SnapshotParse(obj)
    \/ \E init \in Templates : System(init)
    \/ \E ref \in 1..(MaxSnapshots + MaxSeeds) : NextCall(ref)
    \/ \E h \in HookChoices : Before(h)
    \/ \E h \in HookChoices : Do(h)
    \/ \E h \in HookChoices : After(h)
    \/ Chain
    \/ Handle

Next == NextAgent

\* The agent's turns on parsed Snapshots.
Spec == Init /\ [][Next]_vars

\* The codec harness, the agent at rest.
SpecCodec == InitCodec /\ [][NextCodec]_vars

(***************************************************************************)
(* Snapshot text (snapshot.py 110-119)                                     *)
(***************************************************************************)
\* The literal parts of the header lines, each written as one element.
H_MOMENT == "# Moment ID: "
H_SNAPSHOT == "# Snapshot ID: "
H_PREVIOUS == "# Previous Snapshot ID: "
H_TIMESTAMP == "# Timestamp: "
H_ANNOTATIONS == "# Annotations: "

\* `{x}` in an f-string, for an id or a timestamp: str(None) is "None".
fstr(x) == IF x = PyNone THEN <<"None">> ELSE <<x>>

\* Truth test of an id: None and "" are falsy.
IdTruthy(x) == x # PyNone /\ x # ""

\* A predecessor line that is written whatever the predecessor id is.
previous_line_always(s) == <<H_PREVIOUS>> \o fstr(s.previous_snapshot_id) \o <<NL>>

\* `if self.previous_snapshot_id: to_str += ...`
previous_line(s) ==
    IF IdTruthy(s.previous_snapshot_id)
    THEN <<H_PREVIOUS>> \o fstr(s.previous_snapshot_id) \o <<NL>>
    ELSE <<>>

\* `if self.annotations: to_str += ...`
annotations_block(s) ==
    IF Truthy(s.annotations)
    THEN <<H_ANNOTATIONS>> \o TICK3 \o <<NL>> \o strip(yaml_dump(s.annotations))
             \o <<NL>> \o TICK3 \o <<NL>>
    ELSE <<>>

\* Snapshot.__str__
Snapshot_str(s) ==
    <<H_MOMENT>> \o fstr(s.moment_id) \o <<NL>>
        \o <<H_SNAPSHOT>> \o fstr(s.snapshot_id) \o <<NL>>
        \o previous_line(s)
        \o <<H_TIMESTAMP>> \o fstr(s.timestamp) \o <<NL>>
        \o annotations_block(s)
        \o Moment_str(s.moment)

(***************************************************************************)
(* Snapshot.parse on a text: the grammar (snapshots_grammar.peg), the      *)
(* reducer (snapshot.py walk) and the text branch of Snapshot.parse        *)
(***************************************************************************)
\* A header line: its literal, a value that is no newline, a newline.
header_line(text, i, literal) ==
    IF i + 2 <= Len(text) /\ text[i] = literal /\ text[i + 1] # NL /\ text[i + 2] = NL
    THEN Match(i + 3, {<<"value", text[i + 1]>>})
    ELSE NoMatch

\* The annotation block: its literal, a fence, the content lines, a fence.
annotations_at(text, i) ==
    IF ~StartsWith(text, i, <<H_ANNOTATIONS>> \o TICK3 \o <<NL>>) THEN NoMatch
    ELSE LET j == Find(text, i + 5, <<NL>> \o TICK3 \o <<NL>>)
         IN  IF j = 0 THEN NoMatch
             ELSE Match(j + 5, {<<"value", SubSeq(text, i + 5, j - 1)>>})

\* MomentLine*: the rest of the text, line by line, each with its newline.
RECURSIVE moment_lines(_, _)
moment_lines(text, i) ==
    IF i > Len(text) THEN <<>>
    ELSE LET j == Find(text, i, <<NL>>)
             e == IF j = 0 THEN Len(text) ELSE j
         IN  <<[expr_name |-> "MomentLine", value |-> SubSeq(text, i, e)]>>
                 \o moment_lines(text, e + 1)

\* The header rules in document order: node name, literal, and whether the
\* document must have the line when header lines are not optional.
HeaderRules ==
    <<[expr_name |-> "MomentId", literal |-> H_MOMENT, required |-> TRUE],
      [expr_name |-> "SnapshotId", literal |-> H_SNAPSHOT, required |-> TRUE],
      [expr_name |-> "PreviousSnapshotId", literal |-> H_PREVIOUS, required |-> FALSE],
      [expr_name |-> "Timestamp", literal |-> H_TIMESTAMP, required |-> TRUE],
      [expr_name |-> "Annotations", literal |-> H_ANNOTATIONS, required |-> FALSE]>>

\* Header rule k tried at position i of the text.
header_rule(text, i, k) ==
    IF HeaderRules[k].expr_name = "Annotations" THEN annotations_at(text, i)
    ELSE header_line(text, i, HeaderRules[k].literal)

\* The node of a header rule that matched.
HeaderNode(k, r) == [expr_name |-> HeaderRules[k].expr_name, value |-> (CHOOSE c \in r.caps : TRUE)[2]]

\* The document from header rule k on, at position i: MomentId, SnapshotId,
\* PreviousSnapshotId?, Timestamp, Annotations?, MomentLine*.  The grammar
\* file is not part of the sources: with optional_headers every header rule
\* is optional, without it the id lines and the timestamp line are required.
RECURSIVE document_from(_, _, _, _, _)
document_from(text, i, k, optional_headers, nodes) ==
    IF k > Len(HeaderRules) THEN [ok |-> TRUE, nodes |-> nodes \o moment_lines(text, i)]
    ELSE LET r == header_rule(text, i, k)
         IN  IF r.ok
             THEN document_from(text, r.pos, k + 1, optional_headers, Append(nodes, HeaderNode(k, r)))
             ELSE IF HeaderRules[k].required /\ ~optional_headers
             THEN [ok |-> FALSE, nodes |-> <<>>]
             ELSE document_from(text, i, k + 1, optional_headers, nodes)

SNAPSHOT_GRAMMAR_parse(text, optional_headers) == document_from(text, 1, 1, optional_headers, <<>>)

\* snapshot_dict: the keys set so far and their values.
EmptySnapshotDict ==
    [keys |-> {}, moment_id |-> "", snapshot_id |-> "", previous_snapshot_id |-> "",
     timestamp |-> "", annotations |-> <<>>, moment |-> <<>>]

\* walk(node, snapshot_dict) on one node of the document.
snapshot_walk(node, sd) ==
    CASE node.expr_name = "MomentId" ->
            [sd EXCEPT !.keys = @ \cup {"moment_id"}, !.moment_id = node.value]
      [] node.expr_name = "SnapshotId" ->
            [sd EXCEPT !.keys = @ \cup {"snapshot_id"}, !.snapshot_id = node.value]
      [] node.expr_name = "PreviousSnapshotId" ->
            [sd EXCEPT !.keys = @ \cup {"previous_snapshot_id"}, !.previous_snapshot_id = node.value]
      [] node.expr_name = "Timestamp" ->
            [sd EXCEPT !.keys = @ \cup {"timestamp"}, !.timestamp = node.value]
      [] node.expr_name = "Annotations" ->
            [sd EXCEPT !.keys = @ \cup {"annotations"}, !.annotations = node.value]
      [] node.expr_name = "MomentLine" ->
            [sd EXCEPT !.keys = @ \cup {"moment"}, !.moment = Append(@, node.value)]

\* walk over the children of the document node, in order.
RECURSIVE snapshot_walk_all(_, _)
snapshot_walk_all(nodes, sd) ==
    IF nodes = <<>> THEN sd
    ELSE snapshot_walk_all(Tail(nodes), snapshot_walk(Head(nodes), sd))

\* "".join(lines)
RECURSIVE join(_)
join(lines) == IF lines = <<>> THEN <<>> ELSE Head(lines) \o join(Tail(lines))

\* yaml.safe_load of block-style `key: value` lines from position i on.
RECURSIVE yaml_load_lines(_, _)
yaml_load_lines(text, i) ==
    IF i > Len(text) THEN {}
    ELSE LET j == Find(text, i, <<NL>>)
             e == IF j = 0 THEN Len(text) + 1 ELSE j
         IN  {<<text[i], SubSeq(text, i + 3, e - 1)>>} \cup yaml_load_lines(text, e + 1)

\* yaml.safe_load: a mapping for `key: value` lines, a str for a scalar.
yaml_safe_load(text) ==
    IF StartsWith(text, 2, <<":", " ">>) THEN Dict(yaml_load_lines(text, 1)) ELSE Str(text)

\* Snapshot.parse lines 98-108, the Moment parsed: the name annotations is
\* bound only when the document has an annotation block.
Snapshot_of(sd, body) ==
    IF body.exc # "" THEN [exc |-> body.exc, snapshot |-> NoSnapshot]
    ELSE IF "annotations" \notin sd.keys
    THEN [exc |-> "UnboundLocalError", snapshot |-> NoSnapshot]
    ELSE [exc |-> "",
          snapshot |->
              Snapshot(sd.moment_id, sd.snapshot_id, body.moment,
                       GetOrNone(sd, "previous_snapshot_id", sd.previous_snapshot_id),
                       sd.timestamp, yaml_safe_load(sd.annotations))]

\* Snapshot.parse lines 94-100 on the snapshot_dict that walk filled.
Snapshot_parse_walked(sd) ==
    IF KeyError(sd, "moment_id") \/ KeyError(sd, "snapshot_id") \/ KeyError(sd, "timestamp")
        \/ KeyError(sd, "moment")
    THEN [exc |-> "KeyError", snapshot |-> NoSnapshot]
    ELSE Snapshot_of(sd, Moment_parse_text(join(sd.moment)))

\* Snapshot.parse lines 92-93 on the parse tree.
Snapshot_parse_tree(parsed) ==
    IF ~parsed.ok THEN [exc |-> "ParseError", snapshot |-> NoSnapshot]
    ELSE Snapshot_parse_walked(snapshot_walk_all(parsed.nodes, EmptySnapshotDict))

\* Snapshot.parse on a text: the exception, or the Snapshot built.
Snapshot_parse_text(text, optional_headers) ==
    Snapshot_parse_tree(SNAPSHOT_GRAMMAR_parse(text, optional_headers))

(***************************************************************************)
(* Snapshot.parse and str(Snapshot) as a state machine: a Snapshot is      *)
(* constructed, or a text or a mapping is handed in.                       *)
(***************************************************************************)
\* The occurrences of the Moments of the Snapshots constructed.
SnapshotOccs ==
    {Begin, Thought(Str(<<"a">>)), Self(None, Str(<<"a">>)), Self(None, Str(<<QUOTE>>)),
     Observation(Str(<<"a">>))}

AnnotationArgs ==
    {None, Dict({}), Dict({<<"k", <<"v">>>>}), Dict({<<"action", <<"v">>>>, <<"k", <<"v">>>>})}

\* Snapshot(...) called with every combination of ids, timestamp, annotations
\* and Moment.
SnapshotValues ==
    {Snapshot("m1", "s1", [id |-> "m1", occurrences |-> occs], previous, timestamp, annotations) :
        occs \in SeqsUpTo(SnapshotOccs, MaxOccs), previous \in {PyNone, "", "s0"},
        timestamp \in {PyNone, "t0"}, annotations \in AnnotationArgs}

\* text without its first line that starts with literal.
WithoutLine(text, literal) ==
    LET i == Find(text, 1, <<literal>>)
        j == IF literal = H_ANNOTATIONS THEN Find(text, i + 5, <<NL>> \o TICK3 \o <<NL>>) + 4
             ELSE Find(text, i, <<NL>>)
    IN  IF i = 0 THEN text ELSE SubSeq(text, 1, i - 1) \o SubSeq(text, j + 1, Len(text))

\* Texts handed to Snapshot.parse that are short of header lines.
RawSnapshotTexts ==
    {WithoutLine(WithoutLine(Snapshot_str(sn), l1), l2) :
        sn \in {Snapshot("m1", "s1", [id |-> "m1", occurrences |-> <<o>>], "s0", "t0",
                         Dict({<<"k", <<"v">>>>})) : o \in {Begin, Thought(Str(<<"a">>))}},
        l1 \in {H_MOMENT, H_SNAPSHOT, H_TIMESTAMP},
        l2 \in {H_SNAPSHOT, H_PREVIOUS, H_ANNOTATIONS}}

\* Mappings handed to Snapshot.parse that have no snapshot_id key.
SnapshotDictsNoId ==
    {SnapshotDict(SnapshotKeys \ ({"snapshot_id"} \cup drop), "s0", Dict({<<"k", <<"v">>>>}),
                  [id |-> "m1", occurrences |-> <<Begin>>]) :
        drop \in SUBSET {"moment_id", "previous_snapshot_id", "timestamp", "annotations", "moment"}}

InitSnapshot ==
    /\ snapshots = <<>> /\ pexc = ""
    /\ apc = "idle" /\ arg = 0 /\ snapshots0 = <<>> /\ ret = 0 /\ aexc = ""
    /\ uuids = 0 /\ clock = 0 /\ turns = 0
    /\ called = <<>> /\ advances = 0 /\ sysres = NoSeed /\ seeds = 0 /\ chain = <<>>
    /\ given = "calls" /\ calls = <<>> /\ m = NoMoment /\ mpc = "new"
    /\ d = NoDict /\ d0 = NoDict /\ res1 = NoResult /\ res2 = NoResult /\ dpc = "none"
    /\ txt = <<>> /\ tres = NoResult /\ txt2 = <<>> /\ tpc = "none"
    /\ sres = NoParsed /\ stxt2 = <<>>
    /\ \/ /\ sgiven = "snapshot" /\ snap \in SnapshotValues
          /\ sobj = NoSnapshotDict /\ stxt = <<>> /\ spc = "new"
       \/ /\ sgiven = "text" /\ stxt \in RawSnapshotTexts
          /\ snap = NoSnapshot /\ sobj = NoSnapshotDict /\ spc = "text"
       \/ /\ sgiven = "dict" /\ sobj \in SnapshotDicts \cup SnapshotDictsNoId
          /\ snap = NoSnapshot /\ stxt = <<>> /\ spc = "dict"

\* stxt = str(snap)
SnapshotToText ==
    /\ spc = "new"
    /\ stxt' = Snapshot_str(snap)
    /\ spc' = "text"
    /\ UNCHANGED <<sgiven, snap, sobj, sres, stxt2>>
    /\ UNCHANGED codec_vars
    /\ UNCHANGED agent_vars

\* Snapshot.parse(stxt), for the documents whose Moment lines the grammar
\* model of moment.py reads; the Moment has at least one line.
SnapshotParseText(optional_headers) ==
    /\ spc = "text"
    /\ sgiven = "snapshot" =>
          /\ snap.moment.occurrences # <<>>
          /\ \A i \in 1..Len(snap.moment.occurrences) :
                snap.moment.occurrences[i].kind \in GrammarKinds
    /\ sres' = Snapshot_parse_text(stxt, optional_headers)
    /\ spc' = "parsed"
    /\ UNCHANGED <<sgiven, snap, sobj, stxt, stxt2>>
    /\ UNCHANGED codec_vars
    /\ UNCHANGED agent_vars

\* Snapshot.parse(sobj)
SnapshotParseDict ==
    /\ spc = "dict"
    /\ sres' = Snapshot_parse_dict(sobj)
    /\ spc' = "parsed"
    /\ UNCHANGED <<sgiven, snap, sobj, stxt, stxt2>>
    /\ UNCHANGED codec_vars
    /\ UNCHANGED agent_vars

\* stxt2 = str(Snapshot.parse(...))
SnapshotToTextAgain ==
    /\ spc = "parsed" /\ sres.exc = ""
    /\ stxt2' = Snapshot_str(sres.snapshot)
    /\ spc' = "text2"
    /\ UNCHANGED <<sgiven, snap, sobj, stxt, sres>>
    /\ UNCHANGED codec_vars
    /\ UNCHANGED agent_vars

NextSnapshot ==
    \/ SnapshotToText
    \/ \E optional_headers \in BOOLEAN : SnapshotParseText(optional_headers)
    \/ SnapshotParseDict
    \/ SnapshotToTextAgain

\* Snapshot.parse and str(Snapshot), the agent and the Moment codec at rest.
SpecSnapshot == InitSnapshot /\ [][NextSnapshot]_vars

(***************************************************************************)
(* Properties of the codec                                                 *)
(***************************************************************************)
DictParsed == dpc \in {"parsed", "reparsed"}
TextParsed == tpc \in {"parsed", "text2"}

\* C3: Dict round trip.  For a Moment m built from occurrences of the known
\* kinds, Moment.parse(m.to_dict()) succeeds and yields a Moment with the same
\* id and the same sequence of occurrences.
C3_DictRoundTrip ==
    (given = "calls" /\ DictParsed) => (res1.exc = "" /\ res1.moment = m)

\* An entry that names one of the variants.
IsKnownEntry(e) == "kind" \in e.keys /\ e.kind \in subtypes

\* C4: in the dict route an entry whose kind is no variant name, or that has
\* no kind, is dropped without raising: Moment.parse ends exactly as it ends
\* on the mapping without those entries, and the Moment it returns holds one
\* occurrence per known-kind entry, of that entry's kind, in input order.
C4_UnknownKindDropped ==
    DictParsed =>
        LET known == SelectSeq(d0.occurrences, IsKnownEntry)
            ref == Moment_parse_dict([d0 EXCEPT !.occurrences = known])
        IN  /\ res1.exc = ref.exc
            /\ res1.moment = ref.moment
            /\ res1.exc = "" /\ "id" \in d0.keys =>
                  /\ Len(res1.moment.occurrences) = Len(known)
                  /\ \A i \in 1..Len(known) : res1.moment.occurrences[i].kind = known[i].kind

\* C4's case: a mapping with an unknown-kind entry next to a known one was
\* parsed, and the Moment holds the known one only.
C4_Witness ==
    /\ dpc = "parsed" /\ res1.exc = ""
    /\ \E i \in 1..Len(d0.occurrences) : ~IsKnownEntry(d0.occurrences[i])
    /\ Len(res1.moment.occurrences) >= 1
    /\ Len(res1.moment.occurrences) < Len(d0.occurrences)

\* C5: Canonical idempotence.  Parsing the canonical text of a Moment succeeds
\* and serializing the result gives the same text.
C5_CanonicalIdempotence ==
    given = "calls" =>
        /\ TextParsed => tres.exc = ""
        /\ tpc = "text2" => txt2 = txt

\* The one occurrence of a Moment that holds exactly one, of one of the kinds.
Single(kinds) == Len(m.occurrences) = 1 /\ m.occurrences[1].kind \in kinds
Says(o) == DictGet(o.content, "says")

\* C6: Escaping law.  A Self whose says holds double quotes serializes with
\* every embedded quote written backslash-escaped, and parsing that line
\* yields a Self whose says is the original, unescaped string.
C6_EscapingLaw ==
    (Single({"Self"}) /\ Contains(Says(m.occurrences[1]), QUOTE)) =>
        /\ tpc # "none" =>
              txt = <<"S","e","l","f",":"," ">>
                        \o emotion_str(DictGet(m.occurrences[1].content, "emotion"))
                        \o says_str(escape_quotes(Says(m.occurrences[1]))) \o <<NL>>
        /\ TextParsed =>
              /\ tres.exc = ""
              /\ Len(tres.moment.occurrences) = 1
              /\ tres.moment.occurrences[1].kind = "Self"
              /\ Says(tres.moment.occurrences[1]) = Says(m.occurrences[1])

\* What an utterance line holds before its quoted says.
UtterancePrefix(o) ==
    (CASE o.kind = "Self" -> <<"S","e","l","f",":"," ">>
       [] o.kind = "Rejected" -> <<"R","e","j","e","c","t","e","d",":"," ">>
       [] o.kind = "Revision" -> <<"R","e","v","i","s","i","o","n",":"," ">>
       [] o.kind = "Participant" -> DictGet(o.content, "name") \o <<":", " ">>)
    \o emotion_str(DictGet(o.content, "emotion"))

\* C7: for Self, Participant, Rejected and Revision, a says with an embedded
\* newline is serialized triple-quoted with its content verbatim, a says
\* without a newline is serialized in the single-line quoted form, and the
\* says with a newline reparses unchanged.
C7_TripleQuotedVerbatim ==
    Single(UtteranceKinds) =>
        LET o == m.occurrences[1]
        IN  /\ (tpc # "none" /\ Contains(Says(o), NL)) =>
                  txt = UtterancePrefix(o) \o Q3 \o Says(o) \o Q3 \o <<NL>>
            /\ (tpc # "none" /\ ~Contains(Says(o), NL)) =>
                  txt = UtterancePrefix(o) \o <<QUOTE>> \o escape_quotes(Says(o)) \o <<QUOTE, NL>>
            /\ (TextParsed /\ Contains(Says(o), NL)) =>
                  /\ tres.exc = ""
                  /\ Len(tres.moment.occurrences) = 1
                  /\ Says(tres.moment.occurrences[1]) = Says(o)

\* The shape the content of a variant is documented to have.
ContentShape(o) ==
    CASE o.kind \in TextKinds -> o.content.t = "str"
      [] o.kind \in MappingKinds -> o.content.t = "dict"
      [] OTHER -> o.content.t = "dict" /\ DictKeys(o.content) = SubFields(o.kind)

\* C8: Content-shape invariant.  Whatever the constructor is given, None and
\* empty arguments included, the content is a str for the text variants, a
\* mapping holding every sub-field for the variants with sub-fields, and a
\* mapping for Context, Waiting, Resuming, Working and Action.
C8_ContentShape ==
    mpc = "built" => \A i \in 1..Len(m.occurrences) : ContentShape(m.occurrences[i])

\* C9: Moment text rendering.  In str(m) every occurrence's rendering is
\* followed by exactly one newline (so the text ends with a single newline and
\* no blank line separates two occurrences), and a Moment with no occurrences
\* renders as the empty text.
C9_SingleNewlines ==
    (given = "calls" /\ tpc # "none") =>
        /\ m.occurrences = <<>> => txt = <<>>
        /\ \A i \in 1..Len(m.occurrences) :
              LET e == Len(Moment_str_loop(SubSeq(m.occurrences, 1, i)))
              IN  e >= 2 /\ e <= Len(txt) /\ txt[e] = NL /\ txt[e - 1] # NL

\* C10: Moment.parse has no side effect on the mapping it is given: the
\* mapping and its entries are as before the call, so a second parse of the
\* same mapping yields the same occurrences.
C10_ParseLeavesInput ==
    /\ DictParsed => d = d0
    /\ dpc = "reparsed" => res2 = res1

(***************************************************************************)
(* Properties of the Agent's turn                                          *)
(***************************************************************************)
\* The chain fields of a Snapshot.
ChainFields(s) == <<OwnId(s), s.snapshot_id, s.previous_snapshot_id, s.timestamp>>

\* Agent.next has ended, and not because a hook raised.
AdvanceEnded == apc \in {"returned", "raised"} /\ aexc # "HookError"

\* C1: Chain advance.  Advancing Snapshot A with own id X completes and
\* yields B with B's predecessor id X, B's own id different from X, and B's
\* Moment equal to A's Moment as the hooks left it.
C1_ChainAdvance ==
    AdvanceEnded =>
        /\ apc = "returned"
        /\ snapshots[ret].previous_snapshot_id = snapshots0[arg].snapshot_id
        /\ snapshots[ret].snapshot_id # snapshots0[arg].snapshot_id
        /\ snapshots[ret].moment = snapshots[arg].moment

Position(text, x) ==
    IF \E i \in 1..Len(text) : text[i] = x
    THEN CHOOSE i \in 1..Len(text) : text[i] = x /\ \A j \in 1..(i - 1) : text[j] # x
    ELSE 0

HasPredecessor(s) == s.previous_snapshot_id # PyNone /\ s.previous_snapshot_id # ""
HasAnnotations(s) == s.annotations.t = "dict" /\ s.annotations.m # {}

\* C11: Snapshot text form.  str(s) is the header followed at once by the
\* Moment's canonical text; the header holds, in this order, the Moment id
\* line, the own id line, the predecessor line, the timestamp line and the
\* fenced annotation block; the predecessor line is there exactly when the
\* Snapshot has a predecessor id and the annotation block exactly when the
\* annotation mapping is non-empty.
C11_SnapshotTextForm ==
    (sgiven = "snapshot" /\ spc # "new") =>
        LET hl == Len(stxt) - Len(Moment_str(snap.moment))
            pp == Position(stxt, H_PREVIOUS)
            pt == Position(stxt, H_TIMESTAMP)
            pa == Position(stxt, H_ANNOTATIONS)
        IN  /\ hl >= 0 /\ SubSeq(stxt, hl + 1, Len(stxt)) = Moment_str(snap.moment)
            /\ SubSeq(stxt, 1, 6) = <<H_MOMENT, snap.moment_id, NL, H_SNAPSHOT, snap.snapshot_id, NL>>
            /\ pp # 0 <=> HasPredecessor(snap)
            /\ pp # 0 => pp = 7 /\ SubSeq(stxt, 8, 9) = <<snap.previous_snapshot_id, NL>>
            /\ pt = IF pp # 0 THEN 10 ELSE 7
            /\ stxt[pt + 1] = (IF snap.timestamp = PyNone THEN "None" ELSE snap.timestamp)
            /\ stxt[pt + 2] = NL
            /\ pa # 0 <=> HasAnnotations(snap)
            /\ pa = 0 => hl = pt + 2
            /\ pa # 0 =>
                  /\ pa = pt + 3
                  /\ SubSeq(stxt, pa + 1, hl) =
                        TICK3 \o <<NL>> \o strip(yaml_dump(snap.annotations)) \o <<NL>> \o TICK3 \o <<NL>>

\* C11's case: the text of a Snapshot with a predecessor id, annotations and
\* a Moment that is not empty has been written.
C11_Witness ==
    /\ sgiven = "snapshot" /\ spc = "text"
    /\ HasPredecessor(snap) /\ HasAnnotations(snap)
    /\ snap.moment.occurrences # <<>>

\* C12: Snapshot text round trip.  For the text s of a Snapshot,
\* Snapshot.parse(s) succeeds and str(Snapshot.parse(s)) is s: the header
\* fields, their order and the Moment body are reproduced.
C12_SnapshotTextRoundTrip ==
    sgiven = "snapshot" =>
        /\ spc \in {"parsed", "text2"} => sres.exc = ""
        /\ spc = "text2" => stxt2 = stxt

\* The input of Snapshot.parse has no own id: a mapping without the
\* snapshot_id key, a text without the own id line.
MissingOwnId ==
    \/ sgiven = "dict" /\ "snapshot_id" \notin sobj.keys
    \/ sgiven = "text" /\ Position(stxt, H_SNAPSHOT) = 0

\* C13: a missing own id is fatal in both routes.  Snapshot.parse of a
\* mapping without the own-id key, or of a text without the own-id line,
\* raises and returns no Snapshot, whatever other fields are present.
C13_MissingOwnIdFatal ==
    (MissingOwnId /\ spc # "dict" /\ spc # "text") =>
        /\ spc = "parsed"
        /\ sres.exc \notin {"", "<none>"}
        /\ sres.snapshot = NoSnapshot

\* C13's case: a text with every header line but the own id line went
\* through the grammar and the reducer, and reading the own id raised.
C13_Witness ==
    /\ sgiven = "text" /\ spc = "parsed"
    /\ Position(stxt, H_SNAPSHOT) = 0
    /\ Position(stxt, H_MOMENT) # 0 /\ Position(stxt, H_TIMESTAMP) # 0
    /\ Position(stxt, H_ANNOTATIONS) # 0
    /\ sres.exc = "KeyError"

\* Agent.system has ended on a template that is a Moment text.
SeedEnded == sysres.exc # "<none>" /\ Moment_parse_text(sysres.init).exc = ""

\* C14: Seeding.  Agent.system() completes and returns a fresh Snapshot: a
\* newly generated own id, no predecessor id, an empty annotation mapping,
\* and the Moment parsed from the initial template under a newly generated
\* Moment id.
C14_Seeding ==
    SeedEnded =>
        /\ sysres.exc = ""
        /\ sysres.ret \in 1..Len(snapshots)
        /\ LET s == snapshots[sysres.ret]
           IN  /\ \E n \in 1..uuids : OwnId(s) = uuid4(n)
               /\ \E n \in 1..uuids : s.moment.id = uuid4(n)
               /\ s.moment.id # OwnId(s)
               /\ s.previous_snapshot_id = PyNone
               /\ s.annotations = Dict({})
               /\ s.moment.occurrences = Moment_parse_text(sysres.init).moment.occurrences

\* C15: Advance carries annotations over.  Every advance produces a Snapshot
\* whose annotation mapping equals the annotation mapping of the Snapshot
\* that was advanced, the caller not replacing it.
C15_AnnotationsCarried ==
    AdvanceEnded =>
        /\ apc = "returned"
        /\ ret \in 1..Len(snapshots)
        /\ snapshots[ret].annotations = snapshots0[arg].annotations

\* The hooks of Agent.next in the order of the turn.
HookOrder == <<"before", "do", "after">>

\* C17: Turn ordering.  In an Agent.next call the hooks before, do and after
\* are invoked on the Snapshot's Moment in that order, each once and all
\* three when none raises; the chain fields change only after the after hook
\* has returned, and when a hook raises they are as they were.
C17_TurnOrdering ==
    apc # "idle" =>
        /\ Len(called) <= 3 /\ called = SubSeq(HookOrder, 1, Len(called))
        /\ (apc \in {"chain", "returned"} \/ (apc = "raised" /\ aexc # "HookError")) =>
              called = HookOrder
        /\ apc \in {"before", "do", "after", "chain"} =>
              ChainFields(snapshots[arg]) = ChainFields(snapshots0[arg])
        /\ (apc = "raised" /\ aexc = "HookError") =>
              ChainFields(snapshots[arg]) = ChainFields(snapshots0[arg])

\* C17's case: the three hooks ran, two of them appending to the Moment, and
\* the turn went on to the chain step.
C17_Witness ==
    /\ AdvanceEnded /\ called = HookOrder
    /\ Len(snapshots[arg].moment.occurrences) = Len(snapshots0[arg].moment.occurrences) + 2

\* C18: Chain integrity over any sequence of turns.  Every seeding and every
\* advance that got past its hooks produced a version; the seed has no
\* predecessor, a later version's predecessor id is the own id of the version
\* it was advanced from, own ids are pairwise distinct and no version is its
\* own predecessor.
C18_ChainIntegrity ==
    /\ Len(chain) >= advances + (IF SeedEnded THEN 1 ELSE 0)
    /\ \A k \in 1..Len(chain) :
          /\ chain[k].id # chain[k].previous
          /\ \A j \in 1..(k - 1) : chain[j].id # chain[k].id
          /\ \/ chain[k].previous = PyNone
             \/ \E j \in 1..(k - 1) : chain[j].id = chain[k].previous
             \/ \E i \in 1..Len(snapshots) : snapshots[i].snapshot_id = chain[k].previous

\* C19: optional header fields may be absent.  Snapshot.parse of a text with
\* the own id and the timestamp, no predecessor line and no annotation block
\* succeeds; the Snapshot has no predecessor id, no annotations, and one
\* occurrence per line of the Moment body, of that line's kind.
C19_OptionalHeadersAbsent ==
    (sgiven = "snapshot" /\ ~HasPredecessor(snap) /\ ~HasAnnotations(snap)
        /\ spc \in {"parsed", "text2"}) =>
        /\ sres.exc = ""
        /\ sres.snapshot.previous_snapshot_id = PyNone
        /\ ~Truthy(sres.snapshot.annotations)
        /\ Len(sres.snapshot.moment.occurrences) = Len(snap.moment.occurrences)
        /\ \A i \in 1..Len(snap.moment.occurrences) :
              sres.snapshot.moment.occurrences[i].kind = snap.moment.occurrences[i].kind

(***************************************************************************)
(* Properties of the Moment id                                             *)
(***************************************************************************)
\* C16: Moment id from text.  Moment.parse of a text that begins with the
\* comment line `# Moment Id: v` yields a Moment whose id is v.
C16_MomentIdFromText ==
    (given = "text" /\ TextParsed) =>
        /\ tres.exc = ""
        /\ tres.moment.id = txt[2]

====
